---- MODULE Spec2Model ----
(***************************************************************************)
(* The shift-class route of the cohort scheduler: POST applies a shift of  *)
(* one session to a new date and reschedules the sessions after it, GET    *)
(* previews the same computation.  Storage is the cohort's session table.  *)
(*                                                                         *)
(* Dates are day numbers (day 0 is a Sunday); a 'YYYY-MM-DD' string of the *)
(* code is the day number it names.  A JavaScript Date of the code is      *)
(* always "noon, local time" of some day, so it is modelled by that local  *)
(* day; its instant (getTime) is counted in hours since the epoch, UTC.    *)
(***************************************************************************)
EXTENDS Integers, Sequences, FiniteSets, TLC

\* ------------------------------------------------------------------ bounds
\* rows of the cohort table (ids 1..NRows)
NRows == 3
\* latest day a row of the initial table may fall on (the earliest is the day
\* before the requests are served)
MaxInitDate == 5
\* latest day a request may name as newDate
MaxDate == 6
\* the day the requests are served on
Today == 2
\* storage calls that may fail while one request is served
MaxFaults == 1

\* ------------------------------------------------------- program constants
\* 1000 * 60 * 60 * 24 ms, counted in hours
HoursPerDay == 24
\* the wall-clock hour of 'T12:00:00'
NoonHour == 12
\* the week threshold of the renumberer (daysSinceWeekStart >= 7)
WeekDays == 7
\* findNextDay examines 7 days (for i < 7)
ScanDays == 7

Ids == 1..NRows
PIDs == {1, 2}

\* ------------------------------------------------------------- time zones
\* The zone of the server process: UTC offset in hours at noon of a local day,
\* one hour more from local day dstFrom (a Sunday) up to, not including, dstTo.
Zones ==
    { [name |-> "UTC", std |-> 0, dstFrom |-> 0, dstTo |-> 0],
      [name |-> "Pacific/Tongatapu", std |-> 13, dstFrom |-> 0, dstTo |-> 0],
      [name |-> "America/New_York", std |-> 0 - 5, dstFrom |-> 7, dstTo |-> 245] }

VARIABLES
    table,   \* the cohort table: id -> row
    zone,    \* the server's time zone
    today,   \* the server's current local day
    procs,   \* the requests being served
    proc,    \* per request: position in the handler and its locals
    faults,  \* storage calls that have failed so far
    call     \* a helper function applied on its own: its arguments and result

vars == <<table, zone, today, procs, proc, faults, call>>

\* ---------------------------------------------------------- Date helpers
UtcOffset(d) ==
    IF zone.dstFrom <= d /\ d < zone.dstTo THEN zone.std + 1 ELSE zone.std

\* new Date(s + 'T12:00:00').getTime(): noon local time of day d, in hours
getTime(d) == d * HoursPerDay + NoonHour - UtcOffset(d)

\* Date.getDay(): the weekday of the local day
getDay(d) == d % 7

\* date.toISOString().split('T')[0]: the UTC day of the instant
toISODate(d) == getTime(d) \div HoursPerDay

\* today.setHours(0, 0, 0, 0): local midnight of the current day
todayMidnight == today * HoursPerDay - UtcOffset(today)

Days == <<"Sunday", "Monday", "Tuesday", "Wednesday", "Thursday", "Friday", "Saturday">>

getDayName(d) == Days[getDay(d) + 1]

\* names every object inherits from Object.prototype (some of them)
InheritedNames == {"constructor", "toString", "valueOf", "hasOwnProperty", "__proto__"}

\* what days[dayName] yields for an inherited name: a function or an object,
\* which is neither undefined nor a number; it stands here as a value that is
\* no weekday index and is not -1
inheritedProperty == 0 - 2

\* days[dayName] ?? -1, days an object literal with the seven names as keys
getDayIndex(dayName) ==
    IF \E i \in 1..7 : Days[i] = dayName
    THEN (CHOOSE i \in 1..7 : Days[i] = dayName) - 1
    ELSE IF dayName \in InheritedNames THEN inheritedProperty
    ELSE 0 - 1

\* scanDays of a loop that does not step past the last day it examined
RECURSIVE scanDaysToLast(_, _, _)
scanDaysToLast(result, targetDays, i) ==
    IF i >= ScanDays THEN result - 1
    ELSE IF \E j \in 1..Len(targetDays) : targetDays[j] = getDay(result) THEN result
    ELSE scanDaysToLast(result + 1, targetDays, i + 1)

\* for (i = 0; i < 7; i++) { if (targetDays.includes(result.getDay())) return result; result++ }
RECURSIVE scanDays(_, _, _)
scanDays(result, targetDays, i) ==
    IF i >= ScanDays THEN result
    ELSE IF \E j \in 1..Len(targetDays) : targetDays[j] = getDay(result) THEN result
    ELSE scanDays(result + 1, targetDays, i + 1)

\* findNextDay of a scan that starts at fromDate itself
findNextDayFromStart(fromDate, targetDays) == scanDays(fromDate, targetDays, 0)

\* result = fromDate + 1 day, then the scan
findNextDay(fromDate, targetDays) == scanDays(fromDate + 1, targetDays, 0)

\* ------------------------------------------------------------ sequences
RECURSIVE findIndexFrom(_, _, _)
findIndexFrom(s, id, i) ==
    IF i > Len(s) THEN 0 ELSE IF s[i].id = id THEN i ELSE findIndexFrom(s, id, i + 1)

\* findIndex(s => s.id === id), 1-based; 0 stands for -1
findIndex(s, id) == findIndexFrom(s, id, 1)

\* [...new Set(s)]: the distinct elements in first-seen order
RECURSIVE uniq(_)
uniq(s) ==
    IF s = <<>> THEN <<>>
    ELSE LET r == uniq(SubSeq(s, 1, Len(s) - 1))
             x == s[Len(s)]
         IN IF \E j \in 1..Len(r) : r[j] = x THEN r ELSE Append(r, x)

\* the orders in which a select may return the rows: every order that is
\* ascending for the requested key (the order of equal keys is not specified)
Orderings(t) ==
    { s \in [1..Cardinality(DOMAIN t) -> DOMAIN t] :
        \A i, j \in DOMAIN s : i # j => s[i] # s[j] }

byWeekSession(a, b) ==
    \/ a.week_number < b.week_number
    \/ a.week_number = b.week_number /\ a.session_number < b.session_number

byDate(a, b) == a.date < b.date

\* .select('*').order('week_number').order('session_number')
selectByWeekSession(t) ==
    { [i \in DOMAIN s |-> t[s[i]]] :
        s \in { o \in Orderings(t) :
                  \A i, j \in DOMAIN o : i < j => ~byWeekSession(t[o[j]], t[o[i]]) } }

\* .select('*').order('date')
selectByDate(t) ==
    { [i \in DOMAIN s |-> t[s[i]]] :
        s \in { o \in Orderings(t) :
                  \A i, j \in DOMAIN o : i < j => ~byDate(t[o[j]], t[o[i]]) } }

\* ------------------------------------------------------- day pattern
isRegular(s) == s.session_type # "contest"

\* .filter(Boolean): a null or empty day is dropped
isTruthy(d) == d # ""

recognised(i) == i # 0 - 1

\* regularSessions.map(s => s.day)
daysOf(sessions) == [i \in 1..Len(sessions) |-> sessions[i].day]

\* uniqueDays.map(d => getDayIndex(d))
dayIndexes(days) == [i \in 1..Len(days) |-> getDayIndex(days[i])]

\* Step 3 of POST, "Determine day pattern" of GET; uniqueDays is reported by GET
uniqueDaysOf(allSessions) ==
    SelectSeq(uniq(daysOf(SelectSeq(allSessions, isRegular))), isTruthy)

DefaultPattern == <<1, 3, 5>>

ContestDays == <<1, 2, 3, 4, 5>>

detectDayPattern(allSessions) ==
    LET dayPattern == SelectSeq(dayIndexes(uniqueDaysOf(allSessions)), recognised)
    IN IF Len(dayPattern) = 0 THEN DefaultPattern ELSE dayPattern

\* ------------------------------------------------------------- cascade
\* Step 6: the loop over the sessions after the shifted one; currentDate is
\* the Date carried from one iteration to the next
RECURSIVE cascadeFrom(_, _, _, _)
cascadeFrom(allSessions, i, currentDate, dayPattern) ==
    IF i > Len(allSessions) THEN <<>>
    ELSE LET session == allSessions[i]
             next == IF session.session_type = "contest"
                     THEN findNextDay(currentDate, ContestDays)
                     ELSE findNextDay(currentDate, dayPattern)
         IN <<[id |-> session.id, date |-> toISODate(next), day |-> getDayName(next)]>>
            \o cascadeFrom(allSessions, i + 1, next, dayPattern)

\* buildUpdates of a cascade that starts at the first row of the list
buildUpdatesFromFirst(allSessions, sessionIndex, sessionId, newDate) ==
    <<[id |-> sessionId, date |-> newDate, day |-> getDayName(newDate)]>>
    \o cascadeFrom(allSessions, 1, newDate, detectDayPattern(allSessions))

\* Steps 4..6: the update set, the shifted session first
buildUpdates(allSessions, sessionIndex, sessionId, newDate) ==
    <<[id |-> sessionId, date |-> newDate, day |-> getDayName(newDate)]>>
    \o cascadeFrom(allSessions, sessionIndex + 1, newDate, detectDayPattern(allSessions))

\* ---------------------------------------------------------- validation
\* newDateObj <= today
notAfterToday(newDate) == getTime(newDate) <= todayMidnight

\* validate without the same-date check
validateNoSameDate(allSessions, sessionIndex, newDate) ==
    IF sessionIndex = 0 THEN 404
    ELSE IF notAfterToday(newDate) THEN 400
    ELSE 0

\* the checks both handlers make on the fetched list, in the code's order;
\* 0 when the request passes
validate(allSessions, sessionIndex, newDate) ==
    IF sessionIndex = 0 THEN 404
    ELSE IF allSessions[sessionIndex].date = newDate THEN 400
    ELSE IF notAfterToday(newDate) THEN 400
    ELSE 0

validationError(allSessions, sessionIndex, newDate) ==
    IF sessionIndex = 0 THEN "Session not found"
    ELSE IF allSessions[sessionIndex].date = newDate THEN "New date is the same as current date"
    ELSE "New date must be greater than today"

\* ----------------------------------------------------------- renumberer
\* the loop variables of the renumbering pass before its first iteration
renumberStart(firstDate) ==
    [currentWeekNumber |-> 1, sessionInWeek |-> 0, weekStartDate |-> firstDate]

daysSinceWeekStart(sessionDate, weekStartDate) ==
    (getTime(sessionDate) - getTime(weekStartDate)) \div HoursPerDay

startsNewWeek(sessionDate, weekStartDate) ==
    daysSinceWeekStart(sessionDate, weekStartDate) >= WeekDays

\* one iteration of the loop, up to and including sessionInWeek++
renumberStep(st, sessionDate) ==
    IF startsNewWeek(sessionDate, st.weekStartDate)
    THEN [currentWeekNumber |-> st.currentWeekNumber + 1, sessionInWeek |-> 1,
          weekStartDate |-> sessionDate]
    ELSE [st EXCEPT !.sessionInWeek = @ + 1]

\* needsWrite of a pass that writes a row only when its week changed
needsWriteWeekOnly(session, st) == session.week_number # st.currentWeekNumber

\* needsWrite of a pass that writes every row
needsWriteAlways(session, st) == TRUE

\* "Update if week_number or session_number changed"
needsWrite(session, st) ==
    session.week_number # st.currentWeekNumber \/ session.session_number # st.sessionInWeek

\* -------------------------------------------------------------- preview
\* parseInt(sessionId) of GET: the number the leading decimal digits spell,
\* NaN (here -1, which equals no id) when the text starts with no digit
DigitChars == <<"0", "1", "2", "3", "4", "5", "6", "7", "8", "9">>

isDigit(c) == \E v \in 1..10 : DigitChars[v] = c

digitValue(c) == (CHOOSE v \in 1..10 : DigitChars[v] = c) - 1

RECURSIVE parseDigits(_, _, _)
parseDigits(chars, i, acc) ==
    IF i > Len(chars) \/ ~isDigit(chars[i]) THEN acc
    ELSE parseDigits(chars, i + 1, acc * 10 + digitValue(chars[i]))

parseInt(chars) ==
    IF chars = <<>> \/ ~isDigit(chars[1]) THEN 0 - 1 ELSE parseDigits(chars, 1, 0)

\* Array.prototype.sort with the comparator new Date(a.newDate) - new Date(b.newDate):
\* stable, ascending by the day of newDate
RECURSIVE insertByNewDate(_, _)
insertByNewDate(sorted, x) ==
    IF sorted = <<>> THEN <<x>>
    ELSE IF sorted[Len(sorted)].newDate <= x.newDate THEN Append(sorted, x)
    ELSE Append(insertByNewDate(SubSeq(sorted, 1, Len(sorted) - 1), x), sorted[Len(sorted)])

RECURSIVE sortByNewDate(_)
sortByNewDate(s) ==
    IF s = <<>> THEN <<>>
    ELSE insertByNewDate(sortByNewDate(SubSeq(s, 1, Len(s) - 1)), s[Len(s)])

\* newDates of GET joined after the unchanged rows before the shifted one
allNewDatesOf(allSessions, sessionIndex, newDate) ==
    LET updates == buildUpdates(allSessions, sessionIndex, allSessions[sessionIndex].id, newDate)
    IN [i \in 1..Len(allSessions) |->
          IF i < sessionIndex
          THEN [id |-> allSessions[i].id, newDate |-> allSessions[i].date,
                newDay |-> allSessions[i].day, oldData |-> allSessions[i]]
          ELSE [id |-> updates[i - sessionIndex + 1].id,
                newDate |-> updates[i - sessionIndex + 1].date,
                newDay |-> updates[i - sessionIndex + 1].day,
                oldData |-> allSessions[i]]]

\* isAffected of a preview that lists every row
isAffectedAlways(item, allSessions, sessionIndex) == TRUE

\* "Only include in preview if this session is affected (shifted or after)"
isAffected(item, allSessions, sessionIndex) ==
    \/ item.oldData.id = allSessions[sessionIndex].id
    \/ findIndex(allSessions, item.id) > sessionIndex

\* the renumbering loop of GET over the sorted list, collecting the preview
RECURSIVE previewFrom(_, _, _, _, _)
previewFrom(sorted, i, st, allSessions, sessionIndex) ==
    IF i > Len(sorted) THEN <<>>
    ELSE LET item == sorted[i]
             st2 == renumberStep(st, item.newDate)
             entry == [id |-> item.id,
                       oldWeek |-> item.oldData.week_number,
                       oldSession |-> item.oldData.session_number,
                       newWeek |-> st2.currentWeekNumber,
                       newSession |-> st2.sessionInWeek,
                       session_type |-> item.oldData.session_type,
                       subject_name |-> item.oldData.subject_name,
                       oldDate |-> item.oldData.date,
                       oldDay |-> item.oldData.day,
                       newDate |-> item.newDate,
                       newDay |-> item.newDay]
         IN (IF isAffected(item, allSessions, sessionIndex) THEN <<entry>> ELSE <<>>)
            \o previewFrom(sorted, i + 1, st2, allSessions, sessionIndex)

buildPreview(allSessions, sessionIndex, newDate) ==
    LET sorted == sortByNewDate(allNewDatesOf(allSessions, sessionIndex, newDate))
    IN previewFrom(sorted, 1, renumberStart(sorted[1].newDate), allSessions, sessionIndex)

\* ---------------------------------------------------------------- state
SessionTypes == {"live", "contest"}

\* A cohort table as cohort creation leaves it: dates ascending with the id,
\* day the weekday of date, two sessions to a week.
initRow(i, d, ty) ==
    [id |-> i, week_number |-> (i + 1) \div 2, session_number |-> ((i - 1) % 2) + 1,
     date |-> d, day |-> getDayName(d), session_type |-> ty, subject_type |-> "Theory",
     subject_name |-> "DSA", subject_topic |-> "Arrays"]

InitTables ==
    { [i \in Ids |-> initRow(i, d[i], ty[i])] :
        d \in { x \in [Ids -> (Today - 1)..MaxInitDate] :
                    \A i, j \in Ids : i < j => x[i] < x[j] },
        ty \in [Ids -> SessionTypes] }

\* a cohort of live sessions on successive days, the first tomorrow
restingTable == [i \in Ids |-> initRow(i, Today + i, "live")]

\* no helper is applied on its own while requests are served
noCall == [fn |-> "none"]

idleProc ==
    [pc |-> "idle", method |-> "none", query |-> <<>>, sessionId |-> 0, newDate |-> 0,
     allSessions |-> <<>>, sessionIndex |-> 0, updates |-> <<>>, idx |-> 0,
     errors |-> <<>>, successfulUpdates |-> <<>>, updatedSessions |-> <<>>, k |-> 0,
     loop |-> renumberStart(0), pass |-> 0, assigned |-> <<>>, log |-> <<>>,
     overlapped |-> FALSE, sawPartial |-> FALSE,
     response |-> [status |-> 0]]

Init ==
    /\ table \in InitTables
    /\ zone \in Zones
    /\ today = Today
    /\ procs = {1}
    /\ proc = [p \in PIDs |-> idleProc]
    /\ faults = 0
    /\ call = noCall

\* another request is being served: it has fetched and not yet answered
othersInFlight(p) == \E q \in procs \ {p} : proc[q].pc \notin {"idle", "done"}

\* another request is in its update loop with some of its date/day updates
\* attempted and some still to come
othersPartlyApplied(p) ==
    \E q \in procs \ {p} : proc[q].pc = "update" /\ proc[q].idx > 1

\* a storage call fails only when it is made, and at most MaxFaults of them do
outcome(ok, called) ==
    /\ ~ok => called /\ faults < MaxFaults
    /\ faults' = IF ok THEN faults ELSE faults + 1

\* one storage call, as the log records it
selectCall(ok) == [op |-> "select", id |-> 0, ok |-> ok]

updateCall(cols, id, ok) == [op |-> cols, id |-> id, ok |-> ok]

\* ----------------------------------------------------------------- POST
\* POST up to the end of Step 6: the body's fields, the fetch, the checks
\* and the update set.  sessionId 0 is the falsy id of the missing-field check.
PostStart(p, sessionId, newDate, fetchOk) ==
    /\ p \in procs
    /\ proc[p].pc = "idle"
    /\ UNCHANGED <<table, zone, today, procs, call>>
    /\ outcome(fetchOk, sessionId # 0)
    /\ LET me == [proc[p] EXCEPT !.method = "POST", !.sessionId = sessionId,
                                 !.newDate = newDate,
                                 !.overlapped = othersInFlight(p)]
       IN IF sessionId = 0
          THEN proc' = [proc EXCEPT ![p] =
                  [me EXCEPT !.pc = "done",
                             !.response = [status |-> 400,
                                           error |-> "Missing required fields"]]]
          ELSE IF ~fetchOk
          THEN proc' = [proc EXCEPT ![p] =
                  [me EXCEPT !.pc = "done",
                             !.log = Append(@, selectCall(FALSE)),
                             !.response = [status |-> 500,
                                           error |-> "Failed to fetch sessions"]]]
          ELSE \E allSessions \in selectByWeekSession(table) :
                 LET sessionIndex == findIndex(allSessions, sessionId)
                     fetched == [me EXCEPT !.log = Append(@, selectCall(TRUE)),
                                           !.allSessions = allSessions,
                                           !.sessionIndex = sessionIndex]
                 IN IF validate(allSessions, sessionIndex, newDate) # 0
                    THEN proc' = [proc EXCEPT ![p] =
                            [fetched EXCEPT
                               !.pc = "done",
                               !.response =
                                  [status |-> validate(allSessions, sessionIndex, newDate),
                                   error |-> validationError(allSessions, sessionIndex,
                                                             newDate)]]]
                    ELSE proc' = [proc EXCEPT ![p] =
                            [fetched EXCEPT
                               !.pc = "update",
                               !.idx = 1,
                               !.updates = buildUpdates(allSessions, sessionIndex,
                                                        sessionId, newDate)]]

\* UpdateStep of a loop that stops at the first failed update
UpdateStepAbort(p, ok) ==
    /\ p \in procs
    /\ proc[p].pc = "update"
    /\ UNCHANGED <<zone, today, procs, call>>
    /\ outcome(ok, TRUE)
    /\ LET me == proc[p]
           update == me.updates[me.idx]
           last == me.idx = Len(me.updates)
       IN /\ table' = IF ok /\ update.id \in DOMAIN table
                      THEN [table EXCEPT ![update.id].date = update.date,
                                         ![update.id].day = update.day]
                      ELSE table
          /\ proc' = [proc EXCEPT ![p] =
                [me EXCEPT !.log = Append(@, updateCall("date_day", update.id, ok)),
                           !.errors = IF ok THEN @ ELSE Append(@, update.id),
                           !.successfulUpdates = IF ok THEN Append(@, update.id) ELSE @,
                           !.idx = @ + 1,
                           !.pc = IF last \/ ~ok THEN "refetch" ELSE "update"]]

\* Step 7, one iteration: the update of one (id, date, day); a failed update
\* is recorded and leaves the row as it was
UpdateStep(p, ok) ==
    /\ p \in procs
    /\ proc[p].pc = "update"
    /\ UNCHANGED <<zone, today, procs, call>>
    /\ outcome(ok, TRUE)
    /\ LET me == proc[p]
           update == me.updates[me.idx]
           last == me.idx = Len(me.updates)
       IN /\ table' = IF ok /\ update.id \in DOMAIN table
                      THEN [table EXCEPT ![update.id].date = update.date,
                                         ![update.id].day = update.day]
                      ELSE table
          /\ proc' = [proc EXCEPT ![p] =
                [me EXCEPT !.log = Append(@, updateCall("date_day", update.id, ok)),
                           !.errors = IF ok THEN @ ELSE Append(@, update.id),
                           !.successfulUpdates = IF ok THEN Append(@, update.id) ELSE @,
                           !.idx = @ + 1,
                           !.pc = IF last THEN "refetch" ELSE "update"]]

\* Refetch of an apply that renumbers only when every date/day update succeeded
RefetchUnlessErrors(p, ok) ==
    /\ p \in procs
    /\ proc[p].pc = "refetch"
    /\ UNCHANGED <<table, zone, today, procs, call>>
    /\ outcome(ok, proc[p].errors = <<>>)
    /\ IF proc[p].errors # <<>>
       THEN proc' = [proc EXCEPT ![p] = [@ EXCEPT !.pc = "respond"]]
       ELSE IF ~ok
       THEN proc' = [proc EXCEPT ![p] =
               [@ EXCEPT !.log = Append(@, selectCall(FALSE)), !.pc = "respond"]]
       ELSE \E updatedSessions \in selectByDate(table) :
               proc' = [proc EXCEPT ![p] =
                  [@ EXCEPT !.log = Append(@, selectCall(TRUE)),
                            !.updatedSessions = updatedSessions,
                            !.sawPartial = othersPartlyApplied(p),
                            !.pass = 1,
                            !.k = 1,
                            !.loop = renumberStart(updatedSessions[1].date),
                            !.pc = "renumber"]]

\* Step 8, the re-fetch ordered by date; on an error, or an empty table, the
\* renumbering pass is skipped
Refetch(p, ok) ==
    /\ p \in procs
    /\ proc[p].pc = "refetch"
    /\ UNCHANGED <<table, zone, today, procs, call>>
    /\ outcome(ok, TRUE)
    /\ IF ~ok
       THEN proc' = [proc EXCEPT ![p] =
               [@ EXCEPT !.log = Append(@, selectCall(FALSE)), !.pc = "respond"]]
       ELSE \E updatedSessions \in selectByDate(table) :
               proc' = [proc EXCEPT ![p] =
                  [@ EXCEPT !.log = Append(@, selectCall(TRUE)),
                            !.updatedSessions = updatedSessions,
                            !.sawPartial = othersPartlyApplied(p),
                            !.pass = 1,
                            !.k = 1,
                            !.loop = IF Len(updatedSessions) > 0
                                     THEN renumberStart(updatedSessions[1].date)
                                     ELSE renumberStart(0),
                            !.pc = IF Len(updatedSessions) > 0
                                   THEN "renumber" ELSE "respond"]]

\* Step 8, one iteration of the renumbering loop: a row whose pair changed is
\* written, and the outcome of that write is not looked at
RenumberStep(p, ok) ==
    /\ p \in procs
    /\ proc[p].pc = "renumber"
    /\ UNCHANGED <<zone, today, procs, call>>
    /\ outcome(ok, needsWrite(proc[p].updatedSessions[proc[p].k], renumberStep(proc[p].loop, proc[p].updatedSessions[proc[p].k].date)))
    /\ LET me == proc[p]
           session == me.updatedSessions[me.k]
           st == renumberStep(me.loop, session.date)
           write == needsWrite(session, st)
           last == me.k = Len(me.updatedSessions)
       IN /\ table' = IF write /\ ok /\ session.id \in DOMAIN table
                      THEN [table EXCEPT ![session.id].week_number = st.currentWeekNumber,
                                         ![session.id].session_number = st.sessionInWeek]
                      ELSE table
          /\ proc' = [proc EXCEPT ![p] =
                [me EXCEPT !.log = IF write
                                   THEN Append(@, updateCall("week_session", session.id, ok))
                                   ELSE @,
                           !.assigned = Append(@, [id |-> session.id,
                                                   week_number |-> st.currentWeekNumber,
                                                   session_number |-> st.sessionInWeek]),
                           !.loop = st,
                           !.k = @ + 1,
                           !.pc = IF last THEN "respond" ELSE "renumber"]]

\* postResponse counting every update of the update set as done
postResponseCountsAll(me) ==
    IF Len(me.errors) > 0
    THEN [status |-> 207, success |-> FALSE,
          updatedCount |-> Len(me.updates), errors |-> me.errors]
    ELSE [status |-> 200, success |-> TRUE,
          updatedCount |-> Len(me.updates), updates |-> me.updates]

\* the response of a POST that passed validation
postResponse(me) ==
    IF Len(me.errors) > 0
    THEN [status |-> 207, success |-> FALSE,
          updatedCount |-> Len(me.successfulUpdates), errors |-> me.errors]
    ELSE [status |-> 200, success |-> TRUE,
          updatedCount |-> Len(me.updates), updates |-> me.updates]

Respond(p) ==
    /\ p \in procs
    /\ proc[p].pc = "respond"
    /\ UNCHANGED <<table, zone, today, procs, faults, call>>
    /\ proc' = [proc EXCEPT ![p] =
          [@ EXCEPT !.pc = "done", !.response = postResponse(proc[p])]]

\* ------------------------------------------------------------------ GET
\* the whole preview handler: it makes one storage call, the fetch
Get(p, query, newDate, fetchOk) ==
    /\ p \in procs
    /\ proc[p].pc = "idle"
    /\ UNCHANGED <<table, zone, today, procs, call>>
    /\ outcome(fetchOk, query # <<>>)
    /\ LET me == [proc[p] EXCEPT !.method = "GET", !.query = query, !.newDate = newDate,
                                 !.pc = "done"]
       IN IF query = <<>>
          THEN proc' = [proc EXCEPT ![p] =
                  [me EXCEPT !.response = [status |-> 400,
                                           error |-> "Missing required params"]]]
          ELSE IF ~fetchOk
          THEN proc' = [proc EXCEPT ![p] =
                  [me EXCEPT !.log = Append(@, selectCall(FALSE)),
                             !.response = [status |-> 500,
                                           error |-> "Failed to fetch sessions"]]]
          ELSE \E allSessions \in selectByWeekSession(table) :
                 LET sessionIndex == findIndex(allSessions, parseInt(query))
                     fetched == [me EXCEPT !.log = Append(@, selectCall(TRUE)),
                                           !.sessionId = parseInt(query),
                                           !.allSessions = allSessions,
                                           !.sessionIndex = sessionIndex]
                 IN IF validate(allSessions, sessionIndex, newDate) # 0
                    THEN proc' = [proc EXCEPT ![p] =
                            [fetched EXCEPT
                               !.response =
                                  IF sessionIndex = 0
                                  THEN [status |-> 404, error |-> "Session not found"]
                                  ELSE [status |-> validate(allSessions, sessionIndex,
                                                            newDate),
                                        success |-> FALSE,
                                        error |-> validationError(allSessions, sessionIndex,
                                                                  newDate)]]]
                    ELSE proc' = [proc EXCEPT ![p] =
                            [fetched EXCEPT
                               !.response =
                                  [status |-> 200, success |-> TRUE,
                                   shiftedSession |->
                                      [id |-> allSessions[sessionIndex].id,
                                       week_number |->
                                          allSessions[sessionIndex].week_number,
                                       session_number |->
                                          allSessions[sessionIndex].session_number],
                                   affectedCount |->
                                      Len(buildPreview(allSessions, sessionIndex, newDate)),
                                   dayPattern |-> uniqueDaysOf(allSessions),
                                   preview |->
                                      buildPreview(allSessions, sessionIndex, newDate)]]]

\* ---------------------------------------------------------------- inputs
\* the ids a POST body may carry: 0 (falsy), the rows' ids, an unknown id
PostIds == 0..(NRows + 1)

\* the text of a one-digit id in a query string
decimal(n) == <<DigitChars[n + 1]>>

\* the sessionId texts a GET may carry: none, the rows' ids, an unknown id, an
\* id followed by a letter, a letter
GetQueries == { decimal(i) : i \in Ids } \cup { <<>>, <<"9">>, <<"2", "x">>, <<"x">> }

NewDates == 0..MaxDate

Next ==
    \/ \E p \in PIDs, sessionId \in PostIds, newDate \in NewDates, ok \in BOOLEAN :
          PostStart(p, sessionId, newDate, ok)
    \/ \E p \in PIDs, ok \in BOOLEAN : UpdateStep(p, ok)
    \/ \E p \in PIDs, ok \in BOOLEAN : Refetch(p, ok)
    \/ \E p \in PIDs, ok \in BOOLEAN : RenumberStep(p, ok)
    \/ \E p \in PIDs : Respond(p)
    \/ \E p \in PIDs, query \in GetQueries, newDate \in NewDates, ok \in BOOLEAN :
          Get(p, query, newDate, ok)

Spec == Init /\ [][Next]_vars

\* ------------------------------------------------- the renumberer alone
\* latest day a row of a list given to the renumberer may fall on
MaxListDate == 10

\* date-sorted lists of any dates (equal dates included), numbered two to a week
ListTables ==
    { [i \in Ids |-> initRow(i, d[i], "live")] :
        d \in { x \in [Ids -> 0..MaxListDate] : \A i, j \in Ids : i < j => x[i] <= x[j] } }

InitRenumber ==
    /\ table \in ListTables
    /\ zone \in Zones
    /\ today = Today
    /\ procs = {1}
    /\ proc = [p \in PIDs |->
                 IF p = 1 THEN [idleProc EXCEPT !.pc = "refetch", !.method = "POST"]
                 ELSE idleProc]
    /\ faults = 0
    /\ call = noCall

\* the renumbering loop run once more over the same date-sorted list, the rows
\* read again with the pairs the pass before has stored
RenumberAgain(p) ==
    /\ p \in procs
    /\ proc[p].pc = "respond"
    /\ proc[p].pass = 1
    /\ UNCHANGED <<table, zone, today, procs, faults, call>>
    /\ LET list == [i \in DOMAIN proc[p].updatedSessions |->
                      table[proc[p].updatedSessions[i].id]]
       IN proc' = [proc EXCEPT ![p] =
             [@ EXCEPT !.updatedSessions = list,
                       !.pass = 2,
                       !.k = 1,
                       !.loop = renumberStart(list[1].date),
                       !.assigned = <<>>,
                       !.log = <<>>,
                       !.pc = "renumber"]]

NextRenumber ==
    \/ \E p \in PIDs : Refetch(p, TRUE)
    \/ \E p \in PIDs : RenumberStep(p, TRUE)
    \/ \E p \in PIDs : RenumberAgain(p)

SpecRenumber == InitRenumber /\ [][NextRenumber]_vars

\* ------------------------------------------------- two applies at once
\* two requests served at once by the route, every storage call succeeding:
\* each await of a handler is a point where the other handler may run
InitConc ==
    /\ table = restingTable
    /\ zone \in { z \in Zones : z.name = "UTC" }
    /\ today = Today
    /\ procs = PIDs
    /\ proc = [p \in PIDs |-> idleProc]
    /\ faults = 0
    /\ call = noCall

\* the new dates the two applies may name: tomorrow and the day after
ConcDates == {Today + 1, Today + 2}

\* request 1 is the one received first
NextConc ==
    \/ \E sessionId \in Ids, newDate \in ConcDates : PostStart(1, sessionId, newDate, TRUE)
    \/ \E sessionId \in Ids, newDate \in ConcDates :
          proc[1].pc # "idle" /\ PostStart(2, sessionId, newDate, TRUE)
    \/ \E p \in PIDs : UpdateStep(p, TRUE)
    \/ \E p \in PIDs : Refetch(p, TRUE)
    \/ \E p \in PIDs : RenumberStep(p, TRUE)
    \/ \E p \in PIDs : Respond(p)

SpecConc == InitConc /\ [][NextConc]_vars

\* ------------------------------------------------- the helpers alone
\* latest start date given to findNextDay
MaxFromDate == 13

\* the arrays given as targetDays: every set of weekday indices in ascending
\* order (the empty one included), and arrays out of order, with a repeated
\* entry, and with entries that are no weekday index
TargetLists ==
    { SelectSeq(<<0, 1, 2, 3, 4, 5, 6>>, LAMBDA i : i \in S) : S \in SUBSET (0..6) }
    \cup { <<5, 1>>, <<3, 3>>, <<7>>, <<0 - 1, 9>> }

InitFindNextDay ==
    /\ table = restingTable
    /\ zone \in Zones
    /\ today = Today
    /\ procs = {}
    /\ proc = [p \in PIDs |-> idleProc]
    /\ faults = 0
    /\ \E fromDate \in 0..MaxFromDate, targetDays \in TargetLists :
          call = [fn |-> "findNextDay", fromDate |-> fromDate, targetDays |-> targetDays,
                  returned |-> FALSE, result |-> 0]

CallFindNextDay ==
    /\ call.fn = "findNextDay"
    /\ ~call.returned
    /\ call' = [call EXCEPT !.returned = TRUE,
                            !.result = findNextDay(call.fromDate, call.targetDays)]
    /\ UNCHANGED <<table, zone, today, procs, proc, faults>>

NextFindNextDay == CallFindNextDay

SpecFindNextDay == InitFindNextDay /\ [][NextFindNextDay]_vars

\* most sessions of a list given to the day-pattern detector
MaxSessions == 3

\* the day texts a row may hold: weekday names, no day (null or empty),
\* texts that name no day, and a name every object inherits
DayTexts == {"Monday", "Wednesday", "Sunday", "", "monday", "Funday", "constructor"}

\* a session list given to the detector: n rows in id order with the given
\* types and day texts
sessionList(n, ty, dy) ==
    [i \in 1..n |-> [initRow(i, Today + i, ty[i]) EXCEPT !.day = dy[i]]]

InitDetector ==
    /\ table = restingTable
    /\ zone \in Zones
    /\ today = Today
    /\ procs = {}
    /\ proc = [p \in PIDs |-> idleProc]
    /\ faults = 0
    /\ \E n \in 0..MaxSessions :
          \E ty \in [1..n -> SessionTypes], dy \in [1..n -> DayTexts] :
             call = [fn |-> "detectDayPattern", allSessions |-> sessionList(n, ty, dy),
                     returned |-> FALSE, result |-> <<>>]

CallDetector ==
    /\ call.fn = "detectDayPattern"
    /\ ~call.returned
    /\ call' = [call EXCEPT !.returned = TRUE,
                            !.result = detectDayPattern(call.allSessions)]
    /\ UNCHANGED <<table, zone, today, procs, proc, faults>>

NextDetector == CallDetector

SpecDetector == InitDetector /\ [][NextDetector]_vars

\* =============================================================== claims
\* the weekday (0 = Sunday) and the weekday name of a calendar day
weekdayOf(d) == d % 7

weekdayNameOf(d) == Days[weekdayOf(d) + 1]

ToSet(s) == { s[i] : i \in 1..Len(s) }

\* the request of p is an apply, or a preview, that passed validation
applied(p) == proc[p].method = "POST" /\ Len(proc[p].updates) > 0

previewed(p) == proc[p].method = "GET" /\ proc[p].response.status = 200

\* the list was fetched and the target is a row of it
targetFound(p) == proc[p].sessionIndex > 0

\* the storage calls of p that write
writesOf(p) == SelectSeq(proc[p].log, LAMBDA c : c.op # "select")

dateWritesOf(p) == SelectSeq(proc[p].log, LAMBDA c : c.op = "date_day")

\* the new date the request of p gives the row at position i of its list
\* (i at or after the target)
newDateAt(p, i) ==
    IF proc[p].method = "POST"
    THEN proc[p].updates[i - proc[p].sessionIndex + 1].date
    ELSE (CHOOSE e \in ToSet(proc[p].response.preview) :
             e.id = proc[p].allSessions[i].id).newDate

cascadeInOrder(p) ==
    LET all == proc[p].allSessions
        t == proc[p].sessionIndex
        pattern == ToSet(detectDayPattern(all))
    IN \A i \in (t + 1)..Len(all) :
          /\ newDateAt(p, i) > newDateAt(p, i - 1)
          /\ IF all[i].session_type = "contest"
             THEN weekdayOf(newDateAt(p, i)) \in 1..5
             ELSE weekdayOf(newDateAt(p, i)) \in pattern

\* C1: in the update set of an apply and in a preview, the sessions after the
\* target, taken in the original (week_number, session_number) order, get
\* strictly increasing new dates, the first later than the target's new date,
\* each on a weekday of the detected pattern (Monday..Friday for a contest).
\* Stated for a new date after today.
C1_CascadeDatesOnPattern ==
    \A p \in procs :
       ((applied(p) \/ previewed(p)) /\ proc[p].newDate > today) =>
          /\ newDateAt(p, proc[p].sessionIndex) = proc[p].newDate
          /\ cascadeInOrder(p)

\* C2: a request, apply or preview, for the current day or an earlier day
\* ends with HTTP 400 and writes nothing.
C2_TodayOrPastRejected ==
    \A p \in procs :
       (targetFound(p) /\ proc[p].newDate <= today) =>
          /\ proc[p].pc = "done"
          /\ proc[p].response.status = 400
          /\ writesOf(p) = <<>>

pairOf(r) == <<r.week_number, r.session_number>>

pairsConsistentWithDates(t) ==
    /\ \A i, j \in DOMAIN t : i # j => pairOf(t[i]) # pairOf(t[j])
    /\ \A i, j \in DOMAIN t : byWeekSession(t[i], t[j]) => t[i].date <= t[j].date

\* C3: after a completed apply the (week_number, session_number) pairs of the
\* table are pairwise distinct and ascending pairs never go back in date.
\* Stated for a new date after today.
C3_PairsFollowDates ==
    \A p \in procs :
       (applied(p) /\ proc[p].pc = "done" /\ proc[p].newDate > today) =>
          pairsConsistentWithDates(table)

\* C4: in every table state, those left by a partly failed apply included,
\* the day of each row is the weekday name of its date.  Stated for the
\* applies of a new date after today.
C4_DayMatchesDate ==
    (\A p \in procs : proc[p].method = "POST" => proc[p].newDate > today) =>
       \A i \in DOMAIN table : table[i].day = weekdayNameOf(table[i].date)


\* the pairs the rule of C6 gives a date-sorted list: (1, 1) first; a new week,
\* numbered one more and restarting at session 1, exactly when the date is 7 or
\* more days after the first date of the current week
RECURSIVE rulePairs(_, _, _, _, _)
rulePairs(dates, i, week, inWeek, weekStart) ==
    IF i > Len(dates) THEN <<>>
    ELSE IF dates[i] - weekStart >= 7
    THEN <<<<week + 1, 1>>>> \o rulePairs(dates, i + 1, week + 1, 1, dates[i])
    ELSE <<<<week, inWeek + 1>>>> \o rulePairs(dates, i + 1, week, inWeek + 1, weekStart)

pairsByRule(list) ==
    rulePairs([i \in DOMAIN list |-> list[i].date], 1, 1, 0, list[1].date)

passDone(p) == proc[p].pc = "respond" /\ Len(proc[p].assigned) = Len(proc[p].updatedSessions)

\* C5: a second renumbering pass over the same date-sorted list, run after the
\* first pass has stored its pairs, assigns every row the pair it has and
\* issues no update.
C5_RenumberIdempotent ==
    \A p \in procs :
       proc[p].pass = 2 =>
          /\ writesOf(p) = <<>>
          /\ \A i \in DOMAIN proc[p].assigned :
                LET a == proc[p].assigned[i]
                IN /\ a.id = proc[p].updatedSessions[i].id
                   /\ pairOf(a) = pairOf(proc[p].updatedSessions[i])
                   /\ pairOf(a) = pairOf(table[a.id])

C5_Witness ==
    \E p \in procs :
       /\ proc[p].pass = 2
       /\ passDone(p)
       /\ \E i \in DOMAIN table :
             pairOf(table[i]) # pairOf(initRow(i, table[i].date, "live"))
       /\ \E i \in DOMAIN table : table[i].week_number = 2

\* C6: the renumberer numbers a date-sorted list by the 7-day rule: the pairs
\* one pass assigns are those of pairsByRule.
C6_WeekRule ==
    \A p \in procs :
       (proc[p].pass = 1 /\ passDone(p)) =>
          \A i \in DOMAIN proc[p].assigned :
             pairOf(proc[p].assigned[i]) = pairsByRule(proc[p].updatedSessions)[i]

\* the date the fetched list holds for the target
storedDate(p) == proc[p].allSessions[proc[p].sessionIndex].date

\* C7: a request, apply or preview, whose new date is the date stored for the
\* target ends with HTTP 400 and writes nothing.
C7_SameDateRejected ==
    \A p \in procs :
       (targetFound(p) /\ storedDate(p) = proc[p].newDate) =>
          /\ proc[p].pc = "done"
          /\ proc[p].response.status = 400
          /\ writesOf(p) = <<>>

C7_Witness ==
    \E p \in procs :
       /\ proc[p].method = "POST"
       /\ targetFound(p)
       /\ storedDate(p) = proc[p].newDate
       /\ proc[p].newDate > today
       /\ proc[p].response.status = 400

\* the list was fetched
fetched(p) == proc[p].log # <<>> /\ proc[p].log[1].ok

\* the id the request gives is the id of a row of the fetched list
givenIdIsRow(p) ==
    \E i \in DOMAIN proc[p].allSessions :
       IF proc[p].method = "POST"
       THEN proc[p].sessionId = proc[p].allSessions[i].id
       ELSE proc[p].query = decimal(proc[p].allSessions[i].id)

\* C8: on a fetched list, a request whose session id is the id of no row ends
\* with HTTP 404 and writes nothing, and a request whose session id is the id
\* of a row does not end with HTTP 404.
C8_NotFoundIffUnknownId ==
    \A p \in procs :
       fetched(p) =>
          IF givenIdIsRow(p)
          THEN proc[p].response.status # 404
          ELSE /\ proc[p].pc = "done"
               /\ proc[p].response.status = 404
               /\ writesOf(p) = <<>>

\* the row of the fetched list with the given id
fetchedRow(p, id) == CHOOSE r \in ToSet(proc[p].allSessions) : r.id = id

\* C9: the date/day updates of an apply are attempted once each in update-set
\* order whatever their outcomes: a failure neither stops the loop nor is
\* tried again, and a row whose update succeeded keeps the new date and day.
C9_EveryUpdateAttemptedOnce ==
    \A p \in procs :
       applied(p) =>
          LET dw == dateWritesOf(p)
              updates == proc[p].updates
          IN /\ Len(dw) <= Len(updates)
             /\ proc[p].pc = "update" => Len(dw) = proc[p].idx - 1
             /\ proc[p].pc # "update" => Len(dw) = Len(updates)
             /\ \A j \in DOMAIN dw :
                   /\ dw[j].id = updates[j].id
                   /\ IF dw[j].ok
                      THEN /\ table[dw[j].id].date = updates[j].date
                           /\ table[dw[j].id].day = updates[j].day
                      ELSE /\ table[dw[j].id].date = fetchedRow(p, dw[j].id).date
                           /\ table[dw[j].id].day = fetchedRow(p, dw[j].id).day

C9_Witness ==
    \E p \in procs :
       /\ applied(p)
       /\ proc[p].pc = "done"
       /\ Len(proc[p].updates) >= 3
       /\ ~dateWritesOf(p)[1].ok
       /\ dateWritesOf(p)[2].ok
       /\ dateWritesOf(p)[3].ok

failedWritesOf(p) == SelectSeq(dateWritesOf(p), LAMBDA c : ~c.ok)

doneWritesOf(p) == SelectSeq(dateWritesOf(p), LAMBDA c : c.ok)

idsOf(calls) == [i \in 1..Len(calls) |-> calls[i].id]

\* C10: an apply that passed validation answers 207 with success = false
\* exactly when a date/day update failed, with updatedCount the number of
\* updates that succeeded and one error for each that failed; otherwise it
\* answers success = true, updatedCount 1 + the number of sessions after the
\* target, and updates listing the target and then those sessions in order.
C10_ResponseOfApply ==
    \A p \in procs :
       (applied(p) /\ proc[p].pc = "done") =>
          LET r == proc[p].response
              all == proc[p].allSessions
              t == proc[p].sessionIndex
          IN IF failedWritesOf(p) # <<>>
             THEN /\ r.status = 207
                  /\ r.success = FALSE
                  /\ r.updatedCount = Len(doneWritesOf(p))
                  /\ r.errors = idsOf(failedWritesOf(p))
             ELSE /\ r.status = 200
                  /\ r.success = TRUE
                  /\ r.updatedCount = 1 + (Len(all) - t)
                  /\ Len(r.updates) = r.updatedCount
                  /\ \A j \in DOMAIN r.updates : r.updates[j].id = all[t + j - 1].id

C10_Witness ==
    \E p \in procs :
       /\ applied(p)
       /\ proc[p].pc = "done"
       /\ proc[p].response.status = 207
       /\ proc[p].response.updatedCount = 2
       /\ Len(proc[p].updates) = 3

\* the row as the apply of p fetched it, with the four columns an apply may
\* write taken from the row as it is stored now
withWritableOf(old, new) ==
    [old EXCEPT !.date = new.date, !.day = new.day,
                !.week_number = new.week_number, !.session_number = new.session_number]

\* C11: at every point of an apply the table holds the rows it fetched, no
\* more and no fewer; each row differs from the fetched one at most in date,
\* day, week_number and session_number; and the rows before the target in the
\* fetched order keep their date and day.
C11_FrameOfApply ==
    \A p \in procs :
       applied(p) =>
          LET all == proc[p].allSessions
          IN /\ DOMAIN table = { all[i].id : i \in DOMAIN all }
             /\ \A i \in DOMAIN all :
                   /\ table[all[i].id] = withWritableOf(all[i], table[all[i].id])
                   /\ i < proc[p].sessionIndex =>
                         /\ table[all[i].id].date = all[i].date
                         /\ table[all[i].id].day = all[i].day

C11_Witness ==
    \E p \in procs :
       /\ applied(p)
       /\ proc[p].pc = "done"
       /\ proc[p].sessionIndex = 2
       /\ \A j \in DOMAIN dateWritesOf(p) : dateWritesOf(p)[j].ok
       /\ \E c \in ToSet(writesOf(p)) : c.op = "week_session" /\ c.ok
       /\ \E i \in DOMAIN table : table[i].date # fetchedRow(p, i).date

\* no storage call of p has failed
allCallsOk(p) == \A j \in DOMAIN proc[p].log : proc[p].log[j].ok

\* the entry of the update set of p for the row id
updateOf(p, id) == CHOOSE u \in ToSet(proc[p].updates) : u.id = id

\* the preview a GET answers for the list, target and new date of the apply of p
previewOfApply(p) ==
    buildPreview(proc[p].allSessions, proc[p].sessionIndex, proc[p].newDate)

\* C12: for the table state an apply fetched, the preview of the same session
\* and new date reports for each row the (date, day) of the apply's update set
\* and, once the apply has completed with no failed storage call, the
\* (week_number, session_number) the table then holds for that row.  Stated
\* for a new date after today.
C12_PreviewAgreesWithApply ==
    \A p \in procs :
       (applied(p) /\ proc[p].pc = "done" /\ allCallsOk(p) /\ proc[p].newDate > today) =>
          \A e \in ToSet(previewOfApply(p)) :
             /\ e.newDate = updateOf(p, e.id).date
             /\ e.newDay = updateOf(p, e.id).day
             /\ e.newWeek = table[e.id].week_number
             /\ e.newSession = table[e.id].session_number

\* C13: a preview makes no write on any path: its only storage call is the
\* fetch and the table stays as fetched; and a successful preview lists the
\* target and then the sessions after it in the fetched (week_number,
\* session_number) order, each once and no row before the target, with
\* affectedCount the length of the list.
C13_PreviewFrame ==
    \A p \in procs :
       proc[p].method = "GET" =>
          /\ writesOf(p) = <<>>
          /\ fetched(p) =>
                \A i \in DOMAIN proc[p].allSessions :
                   table[proc[p].allSessions[i].id] = proc[p].allSessions[i]
          /\ previewed(p) =>
                LET all == proc[p].allSessions
                    t == proc[p].sessionIndex
                    r == proc[p].response
                IN /\ Len(r.preview) = Len(all) - t + 1
                   /\ \A j \in DOMAIN r.preview : r.preview[j].id = all[t + j - 1].id
                   /\ r.affectedCount = Len(r.preview)

C13_Witness ==
    \E p \in procs :
       /\ previewed(p)
       /\ proc[p].sessionIndex = 2
       /\ proc[p].response.affectedCount = 2
       /\ proc[p].newDate < proc[p].allSessions[1].date

\* findNextDay has returned
findNextDayReturned == call.fn = "findNextDay" /\ call.returned

\* the weekday indices among the entries of targetDays
targetWeekdays == ToSet(call.targetDays) \cap (0..6)

\* C14: for a targetDays that is a non-empty set of weekday indices,
\* findNextDay returns the earliest date after fromDate whose weekday is in the
\* set: later than fromDate, at most 7 days later, and no date between the two
\* is on a weekday of the set.  From a Tuesday with {Monday, Wednesday} it
\* returns the next day.
C14_FindNextDayEarliestAfter ==
    (/\ findNextDayReturned
     /\ call.targetDays # <<>>
     /\ ToSet(call.targetDays) \subseteq 0..6) =>
       /\ call.result > call.fromDate
       /\ call.result <= call.fromDate + 7
       /\ weekdayOf(call.result) \in targetWeekdays
       /\ \A d \in (call.fromDate + 1)..(call.result - 1) : weekdayOf(d) \notin targetWeekdays
       /\ (weekdayOf(call.fromDate) = 2 /\ targetWeekdays = {1, 3}) =>
             call.result = call.fromDate + 1

C14_Witness ==
    /\ findNextDayReturned
    /\ weekdayOf(call.fromDate) = 2
    /\ call.targetDays = <<1, 3>>
    /\ call.result = call.fromDate + 1
    /\ weekdayOf(call.result) = 3

\* C16 as claimed: when no entry of targetDays is the weekday of a date of the
\* scan window, findNextDay returns fromDate + 7 days.
C16_FallbackIsLastExamined ==
    (findNextDayReturned /\ targetWeekdays = {}) => call.result = call.fromDate + 7

\* C16 as amended: when no entry of targetDays is the weekday of a date of the
\* scan window, findNextDay returns fromDate + 8 days, the day after the last
\* date it examined.
C16_FallbackIsDayAfterLastExamined ==
    (findNextDayReturned /\ targetWeekdays = {}) => call.result = call.fromDate + 8

C16_Witness ==
    /\ findNextDayReturned
    /\ call.targetDays = <<>>
    /\ call.fromDate = 2
    /\ call.result = 10

\* the detector has returned
detectorReturned == call.fn = "detectDayPattern" /\ call.returned

\* the weekday indices of the weekday names that the sessions other than
\* contests hold as day, each once, in the order the names are first seen
RECURSIVE firstSeenWeekdays(_, _)
firstSeenWeekdays(list, n) ==
    IF n = 0 THEN <<>>
    ELSE LET before == firstSeenWeekdays(list, n - 1)
             row == list[n]
         IN IF /\ row.session_type # "contest"
               /\ row.day \in ToSet(Days)
               /\ \A j \in DOMAIN before : Days[before[j] + 1] # row.day
            THEN Append(before, (CHOOSE i \in 1..7 : Days[i] = row.day) - 1)
            ELSE before

\* C15: the detector returns the weekday indices of the distinct weekday names
\* of the sessions that are not contests, in first-seen order, and (1, 3, 5)
\* exactly when there is none; the result is not empty and holds only indices
\* 0..6.
C15_DetectorReturnsWeekdays ==
    detectorReturned =>
       LET expected == firstSeenWeekdays(call.allSessions, Len(call.allSessions))
       IN /\ call.result = IF expected = <<>> THEN <<1, 3, 5>> ELSE expected
          /\ call.result # <<>>
          /\ ToSet(call.result) \subseteq 0..6

\* a fetch of the table by p, the first or the re-fetch, has failed
fetchFailed(p) == \E c \in ToSet(proc[p].log) : c.op = "select" /\ ~c.ok

\* C17: an apply in which a fetch of the table failed, the first fetch or the
\* re-fetch before renumbering, answers HTTP 500 and does not report success.
\* Stated, for the re-fetch, for a new date after today.
C17_FetchFailureIs500 ==
    \A p \in procs :
       (/\ proc[p].method = "POST"
        /\ proc[p].pc = "done"
        /\ fetchFailed(p)
        /\ applied(p) => proc[p].newDate > today) =>
          /\ proc[p].response.status = 500
          /\ "success" \in DOMAIN proc[p].response => ~proc[p].response.success

\* the date/day updates among the first n storage calls of p
dateWritesBefore(p, n) ==
    SelectSeq(SubSeq(proc[p].log, 1, n - 1), LAMBDA c : c.op = "date_day")

pairWritesOf(p) == SelectSeq(proc[p].log, LAMBDA c : c.op = "week_session")

\* the re-fetch of p has been made and returned the table
refetched(p) ==
    \E n \in DOMAIN proc[p].log : n > 1 /\ proc[p].log[n].op = "select" /\ proc[p].log[n].ok

\* the rows of the re-fetched list whose computed pair is not the stored one
changedRowsOf(p) ==
    SelectSeq([i \in DOMAIN proc[p].assigned |->
                 [id |-> proc[p].updatedSessions[i].id,
                  changed |-> pairOf(proc[p].updatedSessions[i]) # pairOf(proc[p].assigned[i])]],
              LAMBDA x : x.changed)

\* C18: in an apply the re-fetch and every week_number/session_number write
\* come after an attempt of every date/day update of the update set; the
\* re-fetch is made whatever the outcomes of those updates, and on the list it
\* returns the pass computes a pair for every row, in list order, and writes
\* exactly the rows whose computed pair differs from the stored one.
C18_RenumberAfterAllUpdates ==
    \A p \in procs :
       applied(p) =>
          /\ \A n \in DOMAIN proc[p].log :
                (n > 1 /\ proc[p].log[n].op # "date_day") =>
                   idsOf(dateWritesBefore(p, n)) = idsOf(proc[p].updates)
          /\ proc[p].pc \in {"respond", "done"} =>
                /\ Len(SelectSeq(proc[p].log, LAMBDA c : c.op = "select")) = 2
                /\ refetched(p) =>
                      /\ Len(proc[p].updatedSessions) = Cardinality(DOMAIN table)
                      /\ idsOf(proc[p].assigned) = idsOf(proc[p].updatedSessions)
                      /\ idsOf(pairWritesOf(p)) = idsOf(changedRowsOf(p))

C18_Witness ==
    \E p \in procs :
       /\ applied(p)
       /\ proc[p].pc = "done"
       /\ proc[p].errors # <<>>
       /\ refetched(p)
       /\ Len(pairWritesOf(p)) >= 1
       /\ Len(pairWritesOf(p)) < Len(proc[p].updatedSessions)

\* both requests are applies that have completed
bothApplied == \A p \in PIDs : p \in procs /\ applied(p) /\ proc[p].pc = "done"

\* C19: two applies whose storage calls do not interleave, one answering
\* before the other fetches, leave the pairs unique and following the dates;
\* the witness is the interleaving of the claim: no storage call fails, the
\* re-fetch of one apply reads a table holding part of the other's date/day
\* updates, and after both have completed the pairs are not unique or do not
\* follow the dates.
C19_SerialAppliesKeepPairs ==
    (bothApplied /\ \A p \in PIDs : ~proc[p].overlapped) =>
       pairsConsistentWithDates(table)

C19_Witness ==
    /\ bothApplied
    /\ faults = 0
    /\ \A p \in PIDs : allCallsOk(p)
    /\ \E p \in PIDs : proc[p].sawPartial
    /\ ~pairsConsistentWithDates(table)

====
